---- MODULE Spec2Model ----
(***************************************************************************)
(* Ingestion and work-claim pipeline of rss-info-collector.                *)
(*                                                                         *)
(* One feed table of the relational store is modelled (an enriched feed    *)
(* table such as rss_indiehackers: guid UNIQUE, full_content,              *)
(* processing_status, created_at, deep_analysis_status).  The operations   *)
(* are the crawl task (guid snapshot, enrichment, batched upsert), the     *)
(* cleanup task, the lock-and-flip claim with its finalize updates, and    *)
(* the community deep analysis batch.  One call of enhance_items (batches   *)
(* of fetches with their retry loop) and one call of run_crawl_task over    *)
(* the configured feeds (fetch, parse, scraper fallback, dedup, enrichment, *)
(* upsert, run summary) are modelled step by step as well.                  *)
(*                                                                         *)
(* A guid is the pair <<prefix, tail>>: prefix stands for the bytes that   *)
(* fit the guid column, tail is 1 when the feed's guid is longer than the  *)
(* column (0 otherwise).  Byte truncation keeps the prefix and drops the   *)
(* tail.                                                                   *)
(***************************************************************************)
EXTENDS Integers, FiniteSets, Sequences, TLC

\* ---------------------------------------------------------------- bounds
NumClaimants == 2
NumRuns == 2
NumAnalyzers == 2
NumPrefixes == 2
MaxFeed == 1
MaxRows == 3
MaxLimit == 2
MaxScenarioFeed == 2
MaxEnhance == 4
NumFeeds == 2
NumProducts == 2
NumDates == 2
MaxDigest == 2
MaxIngests == 3

Claimants == 1..NumClaimants
Runs == 1..NumRuns
Analyzers == 1..NumAnalyzers
Guids == (1..NumPrefixes) \X {0, 1}
RowIds == 1..MaxRows

NULL == "NULL"

\* ----------------------------------------------------------------- state
VARIABLES
    table,      \* committed rows of the feed table: id -> row
    nextId,     \* AUTO_INCREMENT counter of the table
    rpc,        \* crawl run -> "idle" | "fetched"
    newItems,   \* crawl run -> new_items (sequence of feed guids) after the snapshot filter
    inserted,   \* inserted_count reported by the last completed crawl run
    cpc,        \* claimant -> position in run_product_discovery_analysis
                \* ("finalizing_unsaved": past the success update, save failed)
    held,       \* claimant -> row ids of its current claim still to be finalized
    climit,     \* claimant -> the limit argument of its open claim call (0: no open call)
    handedTo,   \* history: <<stored guid, row id, claimant>> of every row a claim returned
    apc,        \* deep analyzer -> "idle" | "picked"
    picked,     \* deep analyzer -> row ids fetched by get_articles_for_deep_analysis
    analysed,   \* history: <<row id, deep analyzer>> of every article processed
    feed,       \* the items of the unchanged feed of the two-runs scenario
    runsDone,   \* two-runs scenario: completed crawl runs
    rowsAfterFirst, \* two-runs scenario: COUNT(*) of the table after the first run
    enhPc,      \* enhance_items call: "idle" | "running" | "sleeping" | "done"
    enhInput,   \* enhance_items call: the items argument (sequence of guids)
    enhFetch,   \* enhance_items call: item index -> state of its fetch_full_content
    enhBatch,   \* enhance_items call: index of the first item of the current batch
    enhOut,     \* enhance_items call: enhanced_items so far
    runPc,      \* run_crawl_task call: "running" | "done"
    feedIdx,    \* run_crawl_task call: position in the loop over the configured feeds
    results,    \* run_crawl_task call: the run summary
    lastFeed,   \* run_crawl_task call: what happened in the feed processed last
    fetchPc,    \* parse_feed call: "idle" | "crawl" | "crawl_backup" | "get" |
                \* "get_backup" | "get_of_backup" | "done"
    fetchCfg,   \* parse_feed call: the feed's strategy and the shape of its URL
    fetchLog,   \* parse_feed call: the requests issued so far, with their outcomes
    fetchReturned, \* parse_feed call: the items it returned
    decoTable,  \* rows of rss_decohack_products, in insertion order
    decoDigest, \* the products parsed from the digest entry being ingested
    decoIngests \* how many times that digest entry was ingested

vars == <<table, nextId, rpc, newItems, inserted, cpc, held, climit, handedTo,
          apc, picked, analysed, feed, runsDone, rowsAfterFirst,
          enhPc, enhInput, enhFetch, enhBatch, enhOut,
          runPc, feedIdx, results, lastFeed,
          fetchPc, fetchCfg, fetchLog, fetchReturned,
          decoTable, decoDigest, decoIngests>>

crawlVars == <<rpc, newItems, inserted>>
claimVars == <<cpc, held, climit, handedTo>>
deepVars == <<apc, picked, analysed>>
enhanceVars == <<enhPc, enhInput, enhFetch, enhBatch, enhOut>>
runVars == <<runPc, feedIdx, results, lastFeed>>
fetchVars == <<fetchPc, fetchCfg, fetchLog, fetchReturned>>
decoVars == <<decoTable, decoDigest, decoIngests>>
auxVars == <<fetchVars, decoVars>>
scenarioVars == <<feed, runsDone, rowsAfterFirst, enhanceVars, runVars, auxVars>>

\* --------------------------------------------------------------- helpers
Min(a, b) == IF a < b THEN a ELSE b

SeqsUpTo(S, n) == UNION {[1..k -> S] : k \in 0..n}

Range(s) == {s[i] : i \in DOMAIN s}

\* list comprehension [x for x in s if x \in keep], order preserved
RECURSIVE FilterSeq(_, _)
FilterSeq(s, keep) ==
    IF s = <<>> THEN <<>>
    ELSE IF Head(s) \in keep THEN <<Head(s)>> \o FilterSeq(Tail(s), keep)
    ELSE FilterSeq(Tail(s), keep)

\* _tb(s, n): cut a value to the first n bytes of the column
tb(g) == <<g[1], 0>>

\* ----------------------------------------------------------- feed parser
\* the empty string as a guid or link
EmptyGuid == <<0, 0>>

\* f"rss-{hash(str(item))}": some non-empty value
SyntheticGuid == <<NumPrefixes + 1, 0>>

\* the link of an item: none, or a URL (which can serve as its guid)
Links == {EmptyGuid, <<1, 0>>}

\* the <guid> and <link> texts an entry of a feed document can carry
Entries == [guid : {EmptyGuid} \cup Guids, link : Links]

\* a feed document: "ok" parses at once, "repairable" parses once its invalid
\* characters are removed, "broken" does not parse either way
Documents == [wellFormed : {"ok", "repairable", "broken"},
              entries : SeqsUpTo(Entries, MaxFeed)]

EmptyDocument == [wellFormed |-> "ok", entries |-> <<>>]

\* _parse_rss_item / _parse_atom_item: guid is the entry's guid, else its
\* link, else a synthetic value
ParseRssItem(entry) ==
    [guid |-> IF entry.guid # EmptyGuid THEN entry.guid
              ELSE IF entry.link # EmptyGuid THEN entry.link
              ELSE SyntheticGuid,
     link |-> entry.link]

\* the loop over the entries of a parsed document; namespaces is read for
\* every entry and the read raises when the local was never assigned
ParseEntries(entries, namespaces) ==
    IF entries # <<>> /\ namespaces = "unbound"
    THEN [raised |-> TRUE, items |-> <<>>]
    ELSE [raised |-> FALSE,
          items |-> [k \in DOMAIN entries |-> ParseRssItem(entries[k])]]

\* _parse_xml_content: parse; on a parse error remove the invalid characters
\* and parse once more (namespaces is assigned after the first parse only);
\* any exception of the second pass gives []
ParseXmlContent(doc) ==
    IF doc.wellFormed = "ok" THEN ParseEntries(doc.entries, "bound").items
    ELSE IF doc.wellFormed = "broken" THEN <<>>
    ELSE IF ParseEntries(doc.entries, "unbound").raised THEN <<>>
    ELSE ParseEntries(doc.entries, "unbound").items

\* how the HTTP GETs of a fetch go: mirror tells whether the URL has the
\* mirror prefix, first and backup whether the GET of the URL and of its
\* rewritten form succeed
FetchEnvs ==
    {e \in [mirror : BOOLEAN, first : {"ok", "fail"}, backup : {"ok", "fail"}] :
        \/ e.first = "ok" /\ e.backup = "ok" /\ ~e.mirror
        \/ e.first = "fail" /\ (e.mirror \/ e.backup = "fail")}

FetchFailed(env) == env.first = "fail" /\ (~env.mirror \/ env.backup = "fail")

\* _parse_with_requests: GET and parse; on a failure retry the mirror when
\* the URL has the prefix; return [] when that fails too
ParseWithRequests(env, doc) ==
    IF env.first = "ok" THEN ParseXmlContent(doc)
    ELSE IF env.mirror /\ env.backup = "ok" THEN ParseXmlContent(doc)
    ELSE <<>>

\* indiehackers_scraper.parse_products / parse_groups: the links of the
\* scraped posts (a card without an href has the link ''), or an exception
ScrapeResults ==
    [raised : {TRUE}, links : {<<>>}] \cup
    [raised : {FALSE}, links : SeqsUpTo(Links, MaxFeed)]

\* run_crawl_task: the scraped items, item['guid'] = item.get('link')
ScrapedItems(scraped) ==
    IF scraped.raised THEN <<>>
    ELSE [k \in DOMAIN scraped.links |->
            [guid |-> scraped.links[k], link |-> scraped.links[k]]]

\* ------------------------------------------------------------ enrichment
FetchOutcomes == {"ok", "ok_cleaned_empty", "empty", "exception", "error",
                  "error_1015", "no_link"}

\* variant: an empty fetch result leaves full_content unset
FetchedContentNullOnEmpty(outcome) ==
    CASE outcome = "no_link" -> "missing_link_note"
      [] outcome = "exception" -> "unavailable_note"
      [] outcome = "ok" -> "markdown"
      [] outcome = "ok_cleaned_empty" -> ""
      [] outcome = "error" -> "error_sentinel"
      [] outcome = "error_1015" -> "# Error 1015"
      [] outcome = "empty" -> NULL

\* the full_content that _fetch_batch puts in the output record of one item
FetchedContent(outcome) ==
    CASE outcome = "no_link" -> "missing_link_note"
      [] outcome = "exception" -> "unavailable_note"
      [] outcome = "ok" -> "markdown"
      [] outcome = "ok_cleaned_empty" -> ""
      [] outcome = "error" -> "error_sentinel"
      [] outcome = "error_1015" -> "# Error 1015"
      [] outcome = "empty" -> "unavailable_note"

\* the content_fetched_at of the output record: now() when the fetch returned
\* text (an error sentinel included), None otherwise
ContentFetchedAt(outcome) ==
    IF outcome \in {"ok", "ok_cleaned_empty", "error", "error_1015"} THEN "now" ELSE NULL

\* e = item.copy() with full_content and content_fetched_at set
EnhancedRecord(guid, outcome) ==
    [guid |-> guid, full_content |-> FetchedContent(outcome),
     content_fetched_at |-> ContentFetchedAt(outcome)]

\* batch_size and max_retries of the indiehackers feed type
BatchSize == 3

MaxRetries == 4

IndexSeq(lo, hi) == [k \in 1..(hi - lo + 1) |-> lo + k - 1]

\* variant: an item without a link is skipped
BatchOrderSkipNoLink(lo, hi, outcomes) ==
    FilterSeq(IndexSeq(lo, hi), {i \in lo..hi : outcomes[i] # "no_link"})

\* _fetch_batch: the order of batch_results, as indices into items: the items
\* without a link first, then the fetched ones
BatchOrder(lo, hi, outcomes) ==
    FilterSeq(IndexSeq(lo, hi), {i \in lo..hi : outcomes[i] = "no_link"})
        \o FilterSeq(IndexSeq(lo, hi), {i \in lo..hi : outcomes[i] # "no_link"})

\* variant: gather without return_exceptions, a failed fetch ends the batch
\* with the records of the link-less items only
FetchBatchAbortOnFailure(items, lo, hi, outcomes) ==
    LET order == IF \E i \in lo..hi : outcomes[i] \in {"exception", "error"}
                 THEN FilterSeq(IndexSeq(lo, hi), {i \in lo..hi : outcomes[i] = "no_link"})
                 ELSE BatchOrder(lo, hi, outcomes)
    IN [p \in DOMAIN order |-> EnhancedRecord(items[order[p]], outcomes[order[p]])]

\* _fetch_batch over items[lo..hi]
FetchBatch(items, lo, hi, outcomes) ==
    LET order == BatchOrder(lo, hi, outcomes)
    IN [p \in DOMAIN order |-> EnhancedRecord(items[order[p]], outcomes[order[p]])]

\* enhance_items for an enriched feed type: the batches of batch_size items,
\* one after the other
RECURSIVE EnhanceFrom(_, _, _)
EnhanceFrom(items, lo, outcomes) ==
    IF lo > Len(items) THEN <<>>
    ELSE FetchBatch(items, lo, Min(lo + BatchSize - 1, Len(items)), outcomes)
            \o EnhanceFrom(items, lo + BatchSize, outcomes)

EnhanceItems(items, outcomes) == EnhanceFrom(items, 1, outcomes)

\* _normalize_items_for_db: guid cut to the column width, other columns kept
NormalizeItemsForDb(items) ==
    [i \in DOMAIN items |->
        [guid |-> tb(items[i].guid), full_content |-> items[i].full_content]]

\* ---------------------------------------------------------------- storage
\* SELECT guid FROM table
ExistingGuids(tbl) == {tbl[id].guid : id \in DOMAIN tbl}

RowWithGuid(tbl, g) == CHOOSE id \in DOMAIN tbl : tbl[id].guid = g

\* variant: processing_status is in the insert's column list and takes the
\* item's (missing) value
NewRowStatusFromItem(item, created) ==
    [guid |-> item.guid, full_content |-> item.full_content,
     processing_status |-> NULL, created_at |-> created,
     deep_analysis_status |-> 0]

\* the row an INSERT creates: the listed columns from the item, the others
\* from their column DEFAULT (processing_status 'pending')
NewRow(item, created) ==
    [guid |-> item.guid, full_content |-> item.full_content,
     processing_status |-> "pending", created_at |-> created,
     deep_analysis_status |-> 0]

\* variant: a plain INSERT on a table without the unique key on guid
UpsertOneNoConflict(st, item, created) ==
    [tbl |-> [id \in DOMAIN st.tbl \cup {st.nid} |->
                IF id = st.nid THEN NewRow(item, created) ELSE st.tbl[id]],
     nid |-> st.nid + 1,
     rowcount |-> st.rowcount + 1]

\* variant: REPLACE INTO, the conflicting row is rewritten from the column
\* defaults
UpsertOneResetsStatus(st, item, created) ==
    IF item.guid \in ExistingGuids(st.tbl)
    THEN [tbl |-> [st.tbl EXCEPT ![RowWithGuid(st.tbl, item.guid)] =
                       [@ EXCEPT !.full_content = item.full_content,
                                 !.processing_status = "pending"]],
          nid |-> st.nid,
          rowcount |-> st.rowcount + 2]
    ELSE [tbl |-> [id \in DOMAIN st.tbl \cup {st.nid} |->
                     IF id = st.nid THEN NewRow(item, created) ELSE st.tbl[id]],
          nid |-> st.nid + 1,
          rowcount |-> st.rowcount + 1]

\* INSERT ... ON DUPLICATE KEY UPDATE for one row; the state is
\* [tbl, nid, rowcount]; affected rows: 1 for an insert, 2 for an update
UpsertOne(st, item, created) ==
    IF item.guid \in ExistingGuids(st.tbl)
    THEN [tbl |-> [st.tbl EXCEPT ![RowWithGuid(st.tbl, item.guid)].full_content =
                                    item.full_content],
          nid |-> st.nid,
          rowcount |-> st.rowcount + 2]
    ELSE [tbl |-> [id \in DOMAIN st.tbl \cup {st.nid} |->
                     IF id = st.nid THEN NewRow(item, created) ELSE st.tbl[id]],
          nid |-> st.nid + 1,
          rowcount |-> st.rowcount + 1]

\* cursor.executemany over the batch, in list order
RECURSIVE InsertRssItemsBatch(_, _, _)
InsertRssItemsBatch(st, items, created) ==
    IF items = <<>> THEN st
    ELSE InsertRssItemsBatch(UpsertOne(st, Head(items), created), Tail(items), created)

\* rows under a row lock of an open claim transaction
LockedRows == UNION {held[c] : c \in {d \in Claimants : cpc[d] = "locked"}}

\* DELETE FROM table WHERE created_at < cutoff
DeleteOlderThan(tbl, cutoff) ==
    [id \in {k \in DOMAIN tbl : tbl[k].created_at >= cutoff} |-> tbl[id]]

\* variant: the claim also takes rows stuck in 'processing'
PendingOrProcessing(tbl) ==
    {id \in DOMAIN tbl : tbl[id].processing_status \in {"pending", "processing"}}

\* variant: the claim also takes 'failed' rows for a retry
PendingOrFailed(tbl) ==
    {id \in DOMAIN tbl : tbl[id].processing_status \in {"pending", "failed"}}

\* WHERE processing_status = 'pending'
Pending(tbl) == {id \in DOMAIN tbl : tbl[id].processing_status = "pending"}

\* variant: the query without its LIMIT
SelectPendingNoLimit(tbl, limit) == {Pending(tbl)}

\* ORDER BY created_at ASC LIMIT n over the pending rows: every result set the
\* query may return (rows of equal created_at come in any order)
SelectPending(tbl, limit) ==
    {S \in SUBSET Pending(tbl) :
        /\ Cardinality(S) = Min(limit, Cardinality(Pending(tbl)))
        /\ \A x \in S : \A y \in Pending(tbl) \ S :
              tbl[x].created_at <= tbl[y].created_at}

\* variant: the SELECT without FOR UPDATE never waits
CanLockNoForUpdate(c) == TRUE

\* FOR UPDATE: the locking read waits while a row it scans is locked by
\* another open transaction
CanLock(c) == Pending(table) \cap UNION {held[d] : d \in {e \in Claimants \ {c} : cpc[e] = "locked"}} = {}

\* variant: the UPDATE without its WHERE clause
MarkStatusNoWhere(tbl, ids, st) ==
    [id \in DOMAIN tbl |-> [tbl[id] EXCEPT !.processing_status = st]]

\* UPDATE table SET processing_status = st WHERE id IN (ids)
MarkStatus(tbl, ids, st) ==
    [id \in DOMAIN tbl |->
        IF id \in ids THEN [tbl[id] EXCEPT !.processing_status = st] ELSE tbl[id]]

\* ------------------------------------------------------------- crawl task
\* what a feed can hold when it is parsed
AllFeeds == SeqsUpTo(Guids, MaxFeed)

\* variant: every parsed item goes on to enrichment, stored or not
SnapshotNoFilter(r, feeds) ==
    /\ rpc[r] = "idle"
    /\ \E items \in feeds : newItems' = [newItems EXCEPT ![r] = items]
    /\ rpc' = [rpc EXCEPT ![r] = "fetched"]
    /\ UNCHANGED <<table, nextId, inserted, claimVars, deepVars>>

\* run_crawl_task up to the dedup filter: parse the feed (one of feeds), read
\* the guid snapshot once, keep the items whose guid is not in it
Snapshot(r, feeds) ==
    /\ rpc[r] = "idle"
    /\ \E items \in feeds :
          newItems' = [newItems EXCEPT ![r] =
                          FilterSeq(items, Guids \ ExistingGuids(table))]
    /\ rpc' = [rpc EXCEPT ![r] = "fetched"]
    /\ UNCHANGED <<table, nextId, inserted, claimVars, deepVars>>

\* run_crawl_task from enrichment to the batched upsert, the fetch outcomes
\* of the items drawn from outs; summary tells whether the specification
\* keeps the run summary's items_inserted
Upsert(r, outs, summary) ==
    /\ rpc[r] = "fetched"
    /\ \E outcomes \in [DOMAIN newItems[r] -> outs] :
          LET final == NormalizeItemsForDb(EnhanceItems(newItems[r], outcomes))
              st == InsertRssItemsBatch([tbl |-> table, nid |-> nextId, rowcount |-> 0],
                                        final, nextId)
          IN /\ st.nid <= MaxRows + 1
             /\ \A i \in DOMAIN final :
                   final[i].guid \in ExistingGuids(table) =>
                       RowWithGuid(table, final[i].guid) \notin LockedRows
             /\ table' = st.tbl
             /\ nextId' = st.nid
             /\ inserted' = IF summary THEN st.rowcount ELSE inserted
    /\ rpc' = [rpc EXCEPT ![r] = "idle"]
    /\ newItems' = [newItems EXCEPT ![r] = <<>>]
    /\ UNCHANGED <<claimVars, deepVars>>

\* ----------------------------------------------------------- cleanup task
\* run_cleanup_task / cleanup_old_data: rows created before the cutoff go,
\* whatever their processing_status
Cleanup ==
    /\ \E cutoff \in 2..nextId :
          /\ DOMAIN DeleteOlderThan(table, cutoff) # DOMAIN table
          /\ (DOMAIN table \ DOMAIN DeleteOlderThan(table, cutoff)) \cap LockedRows = {}
          /\ table' = DeleteOlderThan(table, cutoff)
    /\ UNCHANGED <<nextId, crawlVars, claimVars, deepVars, scenarioVars>>

\* ------------------------------------------------------- work-claim queue
\* select_and_lock_pending_items up to the locking SELECT; no row: rollback
\* and return []
ClaimSelect(c) ==
    /\ cpc[c] \in {"idle", "empty", "aborted"}
    /\ CanLock(c)
    /\ \E limit \in 1..MaxLimit : \E items \in SelectPending(table, limit) :
          /\ held' = [held EXCEPT ![c] = items]
          /\ cpc' = [cpc EXCEPT ![c] = IF items = {} THEN "empty" ELSE "locked"]
          /\ climit' = [climit EXCEPT ![c] = IF items = {} THEN 0 ELSE limit]
    /\ UNCHANGED <<table, nextId, handedTo, crawlVars, deepVars, scenarioVars>>

\* select_and_lock_pending_items: the UPDATE to 'processing', the commit and
\* the return of the selected rows
ClaimCommit(c) ==
    /\ cpc[c] = "locked"
    /\ table' = MarkStatus(table, held[c], "processing")
    /\ cpc' = [cpc EXCEPT ![c] = "processing"]
    /\ climit' = [climit EXCEPT ![c] = 0]
    /\ handedTo' = handedTo \cup {<<table[id].guid, id, c>> : id \in held[c]}
    /\ UNCHANGED <<nextId, held, crawlVars, deepVars, scenarioVars>>

\* select_and_lock_pending_items: an exception inside the transaction; the
\* connection rolls back and the call returns []
ClaimAbort(c) ==
    /\ cpc[c] = "locked"
    /\ cpc' = [cpc EXCEPT ![c] = "aborted"]
    /\ held' = [held EXCEPT ![c] = {}]
    /\ climit' = [climit EXCEPT ![c] = 0]
    /\ UNCHANGED <<table, nextId, handedTo, crawlVars, deepVars, scenarioVars>>

\* batch_process_items losing the rows whose extraction failed: they reach
\* neither success_ids nor failed_ids
FinalizeSuccessDropsFailed(c) ==
    /\ cpc[c] = "processing"
    /\ \E success_ids \in SUBSET held[c] :
          /\ table' = MarkStatus(table, success_ids, "success")
          /\ held' = [held EXCEPT ![c] = {}]
    /\ cpc' = [cpc EXCEPT ![c] = "finalizing"]
    /\ UNCHANGED <<nextId, climit, handedTo, crawlVars, deepVars, scenarioVars>>

\* run_product_discovery_analysis: batch_process_items splits the claimed
\* rows into success_ids and failed_ids; the extracted products, if any, go
\* to save_discovered_products, whose failure is only logged and appended to
\* the errors; then the update of success_ids to 'success'
FinalizeSuccess(c) ==
    /\ cpc[c] = "processing"
    /\ \E success_ids \in SUBSET held[c] :
       \E save_success \in (IF success_ids = {} THEN {TRUE} ELSE BOOLEAN) :
          /\ table' = MarkStatus(table, success_ids, "success")
          /\ held' = [held EXCEPT ![c] = @ \ success_ids]
          /\ cpc' = [cpc EXCEPT ![c] = IF save_success THEN "finalizing"
                                                       ELSE "finalizing_unsaved"]
    /\ UNCHANGED <<nextId, climit, handedTo, crawlVars, deepVars, scenarioVars>>

\* run_product_discovery_analysis: the update of failed_ids (the claimed rows
\* not in success_ids) to 'failed'
FinalizeFailed(c) ==
    /\ cpc[c] \in {"finalizing", "finalizing_unsaved"}
    /\ table' = MarkStatus(table, held[c], "failed")
    /\ cpc' = [cpc EXCEPT ![c] = "idle"]
    /\ held' = [held EXCEPT ![c] = {}]
    /\ UNCHANGED <<nextId, climit, handedTo, crawlVars, deepVars, scenarioVars>>

\* the claimant's process dies after its claim committed and before it
\* finalizes
Crash(c) ==
    /\ cpc[c] = "processing"
    /\ cpc' = [cpc EXCEPT ![c] = "crashed"]
    /\ UNCHANGED <<table, nextId, held, climit, handedTo, crawlVars, deepVars, scenarioVars>>

\* ------------------------------------------------ community deep analysis
\* LENGTH(full_content) of the content classes: only fetched markdown is
\* longer than the threshold of the deep-analysis query
DeepMinLength == 100

ContentLength(content) ==
    CASE content = NULL -> 0
      [] content = "" -> 0
      [] content = "markdown" -> DeepMinLength + 1
      [] OTHER -> DeepMinLength

\* get_articles_for_deep_analysis: WHERE deep_analysis_status = 0 AND
\* full_content IS NOT NULL AND LENGTH(full_content) > 100
DeepEligible(tbl) ==
    {id \in DOMAIN tbl :
        /\ tbl[id].deep_analysis_status = 0
        /\ tbl[id].full_content # NULL
        /\ ContentLength(tbl[id].full_content) > DeepMinLength}

\* UPDATE table SET deep_analysis_status = status WHERE id = article_id
SetDeepStatus(tbl, article_id, status) ==
    [id \in DOMAIN tbl |->
        IF id = article_id THEN [tbl[id] EXCEPT !.deep_analysis_status = status]
        ELSE tbl[id]]

\* process_deep_analysis_batch: the plain SELECT of the articles to analyse
\* (ORDER BY published_at DESC LIMIT n; published_at comes from the feed)
DeepPick(a) ==
    /\ apc[a] = "idle"
    /\ \E limit \in 1..MaxLimit : \E articles \in SUBSET DeepEligible(table) :
          /\ articles # {}
          /\ Cardinality(articles) = Min(limit, Cardinality(DeepEligible(table)))
          /\ picked' = [picked EXCEPT ![a] = articles]
    /\ apc' = [apc EXCEPT ![a] = "picked"]
    /\ UNCHANGED <<table, nextId, analysed, crawlVars, claimVars, scenarioVars>>

\* process_single_article: analyse one fetched article and store the result
\* with status 1 (success) or -1 (failure)
DeepAnalyse(a) ==
    /\ apc[a] = "picked"
    /\ \E id \in picked[a] : \E status \in {1, -1} :
          /\ table' = SetDeepStatus(table, id, status)
          /\ analysed' = analysed \cup {<<id, a>>}
          /\ picked' = [picked EXCEPT ![a] = @ \ {id}]
          /\ apc' = [apc EXCEPT ![a] = IF picked[a] = {id} THEN "idle" ELSE "picked"]
    /\ UNCHANGED <<nextId, crawlVars, claimVars, scenarioVars>>

\* ------------------------------------------------- content enrichment call
\* what one crawler.arun call of fetch_full_content can come back with
AttemptResults == {"markdown", "boilerplate_markdown", "rate_limited",
                   "no_markdown", "failed", "raised", "escaped"}

\* the state of one fetch_full_content call: the loop variable attempt (0 once
\* the call has returned), the outcome once it returned ("none" before),
\* whether every attempt of the call was rate limited, whether the pass made
\* last slept its backoff delay before calling the crawler
FreshFetch == [attempt |-> 0, outcome |-> "none", all1015 |-> TRUE, slept |-> FALSE]

NoLinkFetch == [attempt |-> 0, outcome |-> "no_link", all1015 |-> FALSE, slept |-> FALSE]

\* variant: a rate-limited last attempt returns None like an empty result
FetchAttemptRateLimitNone(f, result) ==
    LET last == f.attempt = MaxRetries
        rl == f.all1015 /\ result = "rate_limited"
        done(o) == [attempt |-> IF o = "none" THEN f.attempt + 1 ELSE 0,
                    outcome |-> o, all1015 |-> rl, slept |-> f.attempt > 0]
    IN CASE result = "markdown" -> done("ok")
         [] result = "boilerplate_markdown" -> done("ok_cleaned_empty")
         [] result = "escaped" -> done("exception")
         [] result = "rate_limited" -> done(IF last THEN "empty" ELSE "none")
         [] result = "no_markdown" -> done(IF last THEN "empty" ELSE "none")
         [] result \in {"failed", "raised"} -> done(IF last THEN "error" ELSE "none")

\* variant: range(max_retries + 2), one pass more
FetchAttemptExtraRetry(f, result) ==
    LET last == f.attempt = MaxRetries + 1
        rl == f.all1015 /\ result = "rate_limited"
        done(o) == [attempt |-> IF o = "none" THEN f.attempt + 1 ELSE 0,
                    outcome |-> o, all1015 |-> rl, slept |-> f.attempt > 0]
    IN CASE result = "markdown" -> done("ok")
         [] result = "boilerplate_markdown" -> done("ok_cleaned_empty")
         [] result = "escaped" -> done("exception")
         [] result = "rate_limited" -> done(IF last THEN "error_1015" ELSE "none")
         [] result = "no_markdown" -> done(IF last THEN "empty" ELSE "none")
         [] result \in {"failed", "raised"} -> done(IF last THEN "error" ELSE "none")

\* fetch_full_content: one pass of the retry loop (the backoff sleep when
\* attempt > 0, then crawler.arun), attempt f.attempt of
\* 0..max_retries
FetchAttempt(f, result) ==
    LET last == f.attempt = MaxRetries
        rl == f.all1015 /\ result = "rate_limited"
        done(o) == [attempt |-> IF o = "none" THEN f.attempt + 1 ELSE 0,
                    outcome |-> o, all1015 |-> rl, slept |-> f.attempt > 0]
    IN CASE result = "markdown" -> done("ok")
         [] result = "boilerplate_markdown" -> done("ok_cleaned_empty")
         [] result = "escaped" -> done("exception")
         [] result = "rate_limited" -> done(IF last THEN "error_1015" ELSE "none")
         [] result = "no_markdown" -> done(IF last THEN "empty" ELSE "none")
         [] result \in {"failed", "raised"} -> done(IF last THEN "error" ELSE "none")

\* the items argument of a call: n new items of the feed
EnhanceInput(n) == [k \in 1..n |-> <<((k - 1) % NumPrefixes) + 1, 0>>]

EnhanceOutcomes == [i \in DOMAIN enhFetch |-> enhFetch[i].outcome]

\* variant: one batch holding every remaining item
BatchEndWholeList == Len(enhInput)

\* batch = items[i:i + batch_size]: the index of its last item
BatchEnd == Min(enhBatch + BatchSize - 1, Len(enhInput))

\* enhance_items is called with n items, some of them without a link
EnhanceStart ==
    /\ enhPc = "idle"
    /\ \E n \in 0..MaxEnhance : \E nolink \in SUBSET (1..n) :
          /\ enhInput' = EnhanceInput(n)
          /\ enhFetch' = [i \in 1..n |-> IF i \in nolink THEN NoLinkFetch ELSE FreshFetch]
          /\ enhPc' = IF n = 0 THEN "done" ELSE "running"
    /\ enhBatch' = 1
    /\ enhOut' = <<>>
    /\ UNCHANGED <<table, nextId, crawlVars, claimVars, deepVars, feed, runsDone, rowsAfterFirst, runVars, auxVars>>

\* one attempt of the fetch of item i, an item of the batch being gathered
EnhanceAttempt(i) ==
    /\ enhPc = "running"
    /\ i \in enhBatch..BatchEnd
    /\ enhFetch[i].outcome = "none"
    /\ \E result \in AttemptResults :
          enhFetch' = [enhFetch EXCEPT ![i] = FetchAttempt(@, result)]
    /\ UNCHANGED <<enhPc, enhInput, enhBatch, enhOut>>
    /\ UNCHANGED <<table, nextId, crawlVars, claimVars, deepVars, feed, runsDone, rowsAfterFirst, runVars, auxVars>>

\* every fetch of the batch has returned: _fetch_batch builds batch_results,
\* enhance_items extends enhanced_items; it then sleeps batch_delay when
\* items remain (i + batch_size < total_items) and returns otherwise
EnhanceBatchDone ==
    /\ enhPc = "running"
    /\ \A i \in enhBatch..BatchEnd : enhFetch[i].outcome # "none"
    /\ enhOut' = enhOut \o FetchBatch(enhInput, enhBatch, BatchEnd, EnhanceOutcomes)
    /\ IF enhBatch + BatchSize - 1 < Len(enhInput)
       THEN enhPc' = "sleeping" /\ enhBatch' = enhBatch
       ELSE enhPc' = "done" /\ enhBatch' = enhBatch + BatchSize
    /\ UNCHANGED <<enhInput, enhFetch>>
    /\ UNCHANGED <<table, nextId, crawlVars, claimVars, deepVars, feed, runsDone, rowsAfterFirst, runVars, auxVars>>

\* the inter-batch sleep is over: the loop goes on to the next batch
EnhanceDelayElapsed ==
    /\ enhPc = "sleeping"
    /\ enhPc' = "running"
    /\ enhBatch' = enhBatch + BatchSize
    /\ UNCHANGED <<enhInput, enhFetch, enhOut>>
    /\ UNCHANGED <<table, nextId, crawlVars, claimVars, deepVars, feed, runsDone, rowsAfterFirst, runVars, auxVars>>

\* ------------------------------------------------ run_crawl_task, one call
ItemGuids(items) == [k \in DOMAIN items |-> items[k].guid]

\* the fetch outcomes the items of a feed can have: no fetch without a link
RunOutcomes(items) ==
    {o \in [DOMAIN items -> {"ok", "empty", "error", "no_link"}] :
        \A k \in DOMAIN items : (o[k] = "no_link") <=> (items[k].link = EmptyGuid)}

NoFeedYet ==
    [idx |-> 0, fetchFailed |-> FALSE, wellFormed |-> "none", entries |-> <<>>,
     returned |-> <<>>, deduped |-> <<>>, raised |-> FALSE, storageError |-> FALSE,
     rowcount |-> 0, tableChanged |-> FALSE]

\* one pass of the loop over the configured feeds, for a feed of the
\* indiehackers family: parse_feed, the scraper when that gave nothing, the
\* guid snapshot and filter, the enrichment, the batched upsert and the
\* summary counters; an exception of the pass adds the feed to errors
ProcessFeed ==
    /\ runPc = "running"
    /\ feedIdx <= NumFeeds
    /\ \E env \in FetchEnvs :
       \E doc \in (IF FetchFailed(env) THEN {EmptyDocument} ELSE Documents) :
       LET returned == ParseWithRequests(env, doc) IN
       \E scraped \in (IF returned = <<>> THEN ScrapeResults
                        ELSE {[raised |-> FALSE, links |-> <<>>]}) :
       LET items == IF returned # <<>> THEN returned ELSE ScrapedItems(scraped) IN
       \E snapshotFails \in (IF items = <<>> THEN {FALSE} ELSE BOOLEAN) :
       LET existing_guids == IF snapshotFails THEN {} ELSE ExistingGuids(table)
           keep == {k \in DOMAIN items : items[k].guid \notin existing_guids}
           new_items == [p \in 1..Cardinality(keep) |->
                           items[CHOOSE k \in keep :
                                   Cardinality({j \in keep : j < k}) = p - 1]]
       IN
       \E enhancerRaises \in (IF new_items = <<>> THEN {FALSE} ELSE BOOLEAN) :
       \E storageError \in (IF new_items = <<>> \/ enhancerRaises THEN {FALSE} ELSE BOOLEAN) :
       \E outcomes \in RunOutcomes(new_items) :
       LET final_items == NormalizeItemsForDb(EnhanceItems(ItemGuids(new_items), outcomes))
           st == InsertRssItemsBatch([tbl |-> table, nid |-> nextId, rowcount |-> 0],
                                     final_items, nextId)
           written == ~enhancerRaises /\ ~storageError
           inserted_count == IF written THEN st.rowcount ELSE 0
       IN /\ st.nid <= MaxRows + 1
          /\ table' = IF written THEN st.tbl ELSE table
          /\ nextId' = IF written THEN st.nid ELSE nextId
          /\ results' = IF enhancerRaises
                         THEN [results EXCEPT !.errors = @ \cup {feedIdx}]
                         ELSE [results EXCEPT !.feeds_processed = @ + 1,
                                              !.items_inserted = @ + inserted_count]
          /\ lastFeed' = [idx |-> feedIdx,
                          fetchFailed |-> FetchFailed(env),
                          wellFormed |-> IF FetchFailed(env) THEN "none" ELSE doc.wellFormed,
                          entries |-> IF FetchFailed(env) THEN <<>> ELSE doc.entries,
                          returned |-> ItemGuids(returned),
                          deduped |-> ItemGuids(items),
                          raised |-> enhancerRaises,
                          storageError |-> storageError,
                          rowcount |-> inserted_count,
                          tableChanged |-> written /\ st.tbl # table]
    /\ feedIdx' = feedIdx + 1
    /\ UNCHANGED <<runPc, crawlVars, claimVars, deepVars, feed, runsDone, rowsAfterFirst,
                   enhanceVars, auxVars>>

\* the end of run_crawl_task: success is set from errors and the summary is
\* returned
FinishRun ==
    /\ runPc = "running"
    /\ feedIdx > NumFeeds
    /\ results' = [results EXCEPT !.success = (results.errors = {})]
    /\ runPc' = "done"
    /\ UNCHANGED <<table, nextId, feedIdx, lastFeed, crawlVars, claimVars, deepVars,
                   feed, runsDone, rowsAfterFirst, enhanceVars, auxVars>>

\* ---------------------------------------------------- parse_feed, one call
\* the shapes of a feed URL: without the primary mirror prefix, starting with
\* it, or holding it further inside
UrlShapes == {"plain", "prefixed", "embedded"}

\* "https://rsshub.rssforever.com/" in url
HasMirrorPrefix(url) == url \in {"prefixed", "embedded"}

FetchConfigs == [strategy : {"requests", "crawl4ai"}, url : UrlShapes]

\* one request of the call as the log keeps it
Request(client, host, outcome) == [client |-> client, host |-> host, outcome |-> outcome]

\* parse_feed: the strategy of the feed picks the crawler or the session
FetchStart ==
    /\ fetchPc = "idle"
    /\ \E cfg \in FetchConfigs :
          /\ fetchCfg' = cfg
          /\ fetchPc' = IF cfg.strategy = "crawl4ai" THEN "crawl" ELSE "get"
    /\ UNCHANGED <<fetchLog, fetchReturned>>
    /\ UNCHANGED <<table, nextId, crawlVars, claimVars, deepVars, feed, runsDone,
                   rowsAfterFirst, enhanceVars, runVars, decoVars>>

\* _parse_with_crawl4ai / _fetch_and_parse_crawl4ai: crawler.arun of the URL
\* ("crawl") or of its rewritten form ("crawl_backup"). The page holds a feed
\* document, which is parsed; or it holds none, and the URL just crawled goes
\* to _parse_with_requests; or the crawl raises, and the rewritten URL is
\* crawled when the URL has the prefix
CrawlArun ==
    /\ fetchPc \in {"crawl", "crawl_backup"}
    /\ \E outcome \in {"raise", "rss", "no_rss"} :
       \E doc \in (IF outcome = "rss" THEN Documents ELSE {EmptyDocument}) :
          /\ fetchLog' = Append(fetchLog,
                 Request("crawl4ai", IF fetchPc = "crawl" THEN "primary" ELSE "alternate",
                         outcome))
          /\ fetchPc' =
                CASE outcome = "rss" -> "done"
                  [] outcome = "no_rss" ->
                        IF fetchPc = "crawl" THEN "get" ELSE "get_of_backup"
                  [] outcome = "raise" ->
                        IF fetchPc = "crawl" /\ HasMirrorPrefix(fetchCfg.url)
                        THEN "crawl_backup" ELSE "done"
          /\ fetchReturned' = IF outcome = "rss" THEN ParseXmlContent(doc) ELSE <<>>
    /\ UNCHANGED fetchCfg
    /\ UNCHANGED <<table, nextId, crawlVars, claimVars, deepVars, feed, runsDone,
                   rowsAfterFirst, enhanceVars, runVars, decoVars>>

\* _parse_with_requests: session.get of the URL ("get"), of its rewritten form
\* after a failure ("get_backup"), or of the rewritten URL handed over by the
\* crawler path ("get_of_backup", a URL without the prefix). A 2xx answer is
\* parsed and the result returned; a failed GET of a URL with the prefix is
\* followed by the GET of the rewritten URL; otherwise [] is returned
SessionGet ==
    /\ fetchPc \in {"get", "get_backup", "get_of_backup"}
    /\ \E outcome \in {"fail", "ok"} :
       \E doc \in (IF outcome = "ok" THEN Documents ELSE {EmptyDocument}) :
          /\ fetchLog' = Append(fetchLog,
                 Request("requests", IF fetchPc = "get" THEN "primary" ELSE "alternate",
                         outcome))
          /\ fetchPc' = IF outcome = "fail" /\ fetchPc = "get" /\ HasMirrorPrefix(fetchCfg.url)
                        THEN "get_backup" ELSE "done"
          /\ fetchReturned' = IF outcome = "ok" THEN ParseXmlContent(doc) ELSE <<>>
    /\ UNCHANGED fetchCfg
    /\ UNCHANGED <<table, nextId, crawlVars, claimVars, deepVars, feed, runsDone,
                   rowsAfterFirst, enhanceVars, runVars, decoVars>>

\* ------------------------------------------------ digest (decohack) ingest
\* ph_publish_date of a product whose publish date was not parsed: NULL
NoDate == 0

\* the products a digest entry can list: product_name and ph_publish_date
Products == [product_name : 1..NumProducts, ph_publish_date : {NoDate} \cup (1..NumDates)]

Digests == SeqsUpTo(Products, MaxDigest)

\* UNIQUE KEY (product_name, ph_publish_date): a NULL never equals a NULL
DuplicateKey(tbl, p) ==
    /\ p.ph_publish_date # NoDate
    /\ \E k \in DOMAIN tbl :
          /\ tbl[k].product_name = p.product_name
          /\ tbl[k].ph_publish_date = p.ph_publish_date

\* INSERT IGNORE of the batch, in list order
RECURSIVE BatchInsertDecohackProducts(_, _)
BatchInsertDecohackProducts(tbl, products) ==
    IF products = <<>> THEN tbl
    ELSE BatchInsertDecohackProducts(
             IF DuplicateKey(tbl, Head(products)) THEN tbl ELSE Append(tbl, Head(products)),
             Tail(products))

\* run_crawl_task on the digest feed: the products of the entry are parsed
\* and batch-inserted; later runs find the same entry in the feed
DecohackIngest ==
    /\ decoIngests < MaxIngests
    /\ \E products \in (IF decoIngests = 0 THEN Digests ELSE {decoDigest}) :
          /\ decoDigest' = products
          /\ decoTable' = BatchInsertDecohackProducts(decoTable, products)
    /\ decoIngests' = decoIngests + 1
    /\ UNCHANGED <<table, nextId, crawlVars, claimVars, deepVars, feed, runsDone,
                   rowsAfterFirst, enhanceVars, runVars, fetchVars>>

\* --------------------------------------------------------- specifications
Init ==
    /\ table = <<>>
    /\ nextId = 1
    /\ rpc = [r \in Runs |-> "idle"]
    /\ newItems = [r \in Runs |-> <<>>]
    /\ inserted = 0
    /\ cpc = [c \in Claimants |-> "idle"]
    /\ held = [c \in Claimants |-> {}]
    /\ climit = [c \in Claimants |-> 0]
    /\ handedTo = {}
    /\ apc = [a \in Analyzers |-> "idle"]
    /\ picked = [a \in Analyzers |-> {}]
    /\ analysed = {}
    /\ feed = <<>>
    /\ runsDone = 0
    /\ rowsAfterFirst = 0
    /\ enhPc = "idle"
    /\ enhInput = <<>>
    /\ enhFetch = <<>>
    /\ enhBatch = 1
    /\ enhOut = <<>>
    /\ runPc = "running"
    /\ feedIdx = 1
    /\ results = [success |-> TRUE, feeds_processed |-> 0, items_inserted |-> 0,
                  errors |-> {}]
    /\ lastFeed = NoFeedYet
    /\ fetchPc = "idle"
    /\ fetchCfg = [strategy |-> "requests", url |-> "plain"]
    /\ fetchLog = <<>>
    /\ fetchReturned = <<>>
    /\ decoTable = <<>>
    /\ decoDigest = <<>>
    /\ decoIngests = 0

\* the pipeline: one crawl process (every fetch succeeds, the run summary is
\* not kept), the cleanup task and the claimants
CrawlSnapshot == Snapshot(1, AllFeeds) /\ UNCHANGED scenarioVars

CrawlUpsert == Upsert(1, {"ok"}, FALSE) /\ UNCHANGED scenarioVars

Next ==
    \/ CrawlSnapshot
    \/ CrawlUpsert
    \/ Cleanup
    \/ \E c \in Claimants : ClaimSelect(c)
    \/ \E c \in Claimants : ClaimCommit(c)
    \/ \E c \in Claimants : ClaimAbort(c)
    \/ \E c \in Claimants : FinalizeSuccess(c)
    \/ \E c \in Claimants : FinalizeFailed(c)
    \/ \E c \in Claimants : Crash(c)

Spec == Init /\ [][Next]_vars

\* overlapping crawl runs of the same feed and the cleanup task
CrawlOutcomes == {"ok", "ok_cleaned_empty", "empty"}

OverlapSnapshot(r) == Snapshot(r, AllFeeds) /\ UNCHANGED scenarioVars

OverlapUpsert(r) == Upsert(r, CrawlOutcomes, TRUE) /\ UNCHANGED scenarioVars

NextCrawl ==
    \/ \E r \in Runs : OverlapSnapshot(r)
    \/ \E r \in Runs : OverlapUpsert(r)
    \/ Cleanup

SpecCrawl == Init /\ [][NextCrawl]_vars

\* one crawl process and concurrent runs of the community deep analysis
DeepCrawlUpsert == Upsert(1, {"ok", "empty"}, FALSE) /\ UNCHANGED scenarioVars

NextDeep ==
    \/ CrawlSnapshot
    \/ DeepCrawlUpsert
    \/ \E a \in Analyzers : DeepPick(a)
    \/ \E a \in Analyzers : DeepAnalyse(a)

SpecDeep == Init /\ [][NextDeep]_vars

\* one call of enhance_items for an enriched feed type
NextEnhance ==
    \/ EnhanceStart
    \/ \E i \in 1..MaxEnhance : EnhanceAttempt(i)
    \/ EnhanceBatchDone
    \/ EnhanceDelayElapsed

SpecEnhance == Init /\ [][NextEnhance]_vars

\* one call of run_crawl_task over the configured feeds
NextRun == ProcessFeed \/ FinishRun

SpecRun == Init /\ [][NextRun]_vars

\* the crawl task run twice in a row on a feed whose content does not change
InitTwoRuns ==
    /\ table = <<>>
    /\ nextId = 1
    /\ rpc = [r \in Runs |-> "idle"]
    /\ newItems = [r \in Runs |-> <<>>]
    /\ inserted = 0
    /\ cpc = [c \in Claimants |-> "idle"]
    /\ held = [c \in Claimants |-> {}]
    /\ climit = [c \in Claimants |-> 0]
    /\ handedTo = {}
    /\ apc = [a \in Analyzers |-> "idle"]
    /\ picked = [a \in Analyzers |-> {}]
    /\ analysed = {}
    /\ feed \in SeqsUpTo(Guids, MaxScenarioFeed)
    /\ runsDone = 0
    /\ rowsAfterFirst = 0
    /\ enhPc = "idle"
    /\ enhInput = <<>>
    /\ enhFetch = <<>>
    /\ enhBatch = 1
    /\ enhOut = <<>>
    /\ runPc = "running"
    /\ feedIdx = 1
    /\ results = [success |-> TRUE, feeds_processed |-> 0, items_inserted |-> 0,
                  errors |-> {}]
    /\ lastFeed = NoFeedYet
    /\ fetchPc = "idle"
    /\ fetchCfg = [strategy |-> "requests", url |-> "plain"]
    /\ fetchLog = <<>>
    /\ fetchReturned = <<>>
    /\ decoTable = <<>>
    /\ decoDigest = <<>>
    /\ decoIngests = 0

TwoRunsSnapshot ==
    /\ runsDone < 2
    /\ Snapshot(1, {feed})
    /\ UNCHANGED scenarioVars

TwoRunsUpsert ==
    /\ Upsert(1, FetchOutcomes, TRUE)
    /\ runsDone' = runsDone + 1
    /\ rowsAfterFirst' = IF runsDone = 0 THEN Cardinality(DOMAIN table') ELSE rowsAfterFirst
    /\ feed' = feed
    /\ UNCHANGED <<enhanceVars, runVars, auxVars>>

NextTwoRuns == TwoRunsSnapshot \/ TwoRunsUpsert

SpecTwoRuns == InitTwoRuns /\ [][NextTwoRuns]_vars

\* one crawl process whose run summary is kept, and one claimant working on
\* the rows it stores
ReingestUpsert == Upsert(1, CrawlOutcomes, TRUE) /\ UNCHANGED scenarioVars

NextReingest ==
    \/ CrawlSnapshot
    \/ ReingestUpsert
    \/ ClaimSelect(1)
    \/ ClaimCommit(1)
    \/ ClaimAbort(1)
    \/ FinalizeSuccess(1)
    \/ FinalizeFailed(1)
    \/ Crash(1)

SpecReingest == Init /\ [][NextReingest]_vars

\* one call of parse_feed for one configured feed
NextFetch == FetchStart \/ CrawlArun \/ SessionGet

SpecFetch == Init /\ [][NextFetch]_vars

\* the crawl task run again and again on a digest feed that does not change
NextDecohack == DecohackIngest

SpecDecohack == Init /\ [][NextDecohack]_vars

\* ------------------------------------------------------------ properties
NoPendingRow == \A id \in DOMAIN table : table[id].processing_status # "pending"

LegalMove(a, b) ==
    \/ a = b
    \/ a = "pending" /\ b = "processing"
    \/ a = "processing" /\ b \in {"success", "failed"}

\* C1: no row id is returned to more than one claimant, in any interleaving
\* of the claimants' calls.
ClaimedIdsDisjoint ==
    \A x \in handedTo : \A y \in handedTo : x[2] = y[2] => x[3] = y[3]

\* two claimants hold the rows of their own committed claims at the same time
ConcurrentClaimsWitness ==
    \E c \in Claimants : \E d \in Claimants \ {c} :
        /\ cpc[c] = "processing" /\ held[c] # {}
        /\ cpc[d] = "processing" /\ held[d] # {}

\* C2: a stored entry, identified by its guid, is returned by a claim at most
\* once over any sequence of crawl, claim, finalize and cleanup operations.
EntryHandedAtMostOnce ==
    \A x \in handedTo : \A y \in handedTo : x[1] = y[1] => x = y

\* C3: a row's processing_status only moves pending -> processing ->
\* success or failed; no step moves it otherwise.
StatusLifecycle ==
    [][\A id \in DOMAIN table \cap DOMAIN table' :
          LegalMove(table[id].processing_status, table'[id].processing_status)]_vars

\* one claimed row was finalized to success and another to failed
TerminalStatusWitness ==
    \E i \in DOMAIN table : \E j \in DOMAIN table :
        /\ table[i].processing_status = "success"
        /\ table[j].processing_status = "failed"

\* C4: the rows a claim returns were pending when selected and are processing
\* once it commits; they are at most `limit` rows and no other row changes.
ClaimFlipsExactlySelected ==
    [][\A c \in Claimants :
          /\ (cpc[c] # "locked" /\ cpc'[c] = "locked") =>
                /\ \A id \in held'[c] :
                      id \in DOMAIN table /\ table[id].processing_status = "pending"
                /\ Cardinality(held'[c]) <= climit'[c]
          /\ (cpc[c] = "locked" /\ cpc'[c] = "processing") =>
                /\ \A id \in held[c] :
                      /\ id \in DOMAIN table /\ table[id].processing_status = "pending"
                      /\ id \in DOMAIN table' /\ table'[id].processing_status = "processing"
                /\ Cardinality(held[c]) <= climit[c]
                /\ {x[2] : x \in handedTo' \ handedTo} = held[c]
                /\ DOMAIN table' = DOMAIN table
                /\ \A id \in DOMAIN table \ held[c] : table'[id] = table[id]]_vars

\* a committed claim returned one row and left another pending row alone
LimitedClaimWitness ==
    \E c \in Claimants :
        /\ cpc[c] = "processing" /\ Cardinality(held[c]) = 1
        /\ \E id \in DOMAIN table \ held[c] : table[id].processing_status = "pending"

EmptyClaimNoEffect ==
    [][\A c \in Claimants :
          (cpc[c] \in {"idle", "empty", "aborted"} /\ cpc'[c] # cpc[c] /\ NoPendingRow) =>
              /\ cpc'[c] = "empty"
              /\ held'[c] = {}
              /\ table' = table
              /\ handedTo' = handedTo]_vars

\* a claim came back empty from a table that has rows, none of them pending
EmptyClaimWitness ==
    \E c \in Claimants :
        cpc[c] = "empty" /\ DOMAIN table # {} /\ NoPendingRow

\* C7: every consumer takes its rows through the lock-and-flip claim, so two
\* concurrent runs of the community deep analysis never process the same row.
NoRowAnalysedTwice ==
    \A x \in analysed : \A y \in analysed : x[1] = y[1] => x[2] = y[2]

\* C8: no feed table ever holds two rows with the same guid, overlapping
\* ingestion runs included.
NoDuplicateGuid ==
    \A i \in DOMAIN table : \A j \in DOMAIN table :
        table[i].guid = table[j].guid => i = j

\* a run whose snapshot missed the stored row has upserted its guid: the
\* batch updated the one existing row and inserted nothing
OverwriteWitness ==
    /\ inserted = 2 /\ nextId = 2 /\ Cardinality(DOMAIN table) = 1
    /\ \A r \in Runs : rpc[r] = "idle"

\* C9: the second of two crawl runs on an unchanged feed leaves the row count
\* as it was after the first run and reports zero inserted items.
SecondRunAddsNothing ==
    runsDone = 2 => (Cardinality(DOMAIN table) = rowsAfterFirst /\ inserted = 0)

\* C10: re-ingestion of a stored guid never turns the row's full content from
\* a populated value into null.
FullContentNeverRegresses ==
    [][\A id \in DOMAIN table \cap DOMAIN table' :
          table[id].full_content # NULL => table'[id].full_content # NULL]_vars

\* a stored guid was re-ingested by a run whose content fetch came back empty
ReingestEmptyFetchWitness ==
    /\ inserted = 2 /\ nextId = 2
    /\ \E id \in DOMAIN table : table[id].full_content = "unavailable_note"

\* C11: every row an ingestion run creates has processing_status pending at
\* the moment it is created.
NewRowsArePending ==
    [][\A id \in DOMAIN table' \ DOMAIN table :
          table'[id].processing_status = "pending"]_vars

\* a run has created a pending row in a table whose older row is finalized
NewRowBesideFinalizedWitness ==
    \E i \in DOMAIN table : \E j \in DOMAIN table :
        /\ i < j
        /\ table[i].processing_status = "success"
        /\ table[j].processing_status = "pending"

\* output position of item i: the batches before it, then its place in the
\* batch_results of its own batch
OutPositions(i) ==
    {p \in 1..Len(enhInput) :
        LET lo == ((i - 1) \div BatchSize) * BatchSize + 1
            order == BatchOrder(lo, Min(lo + BatchSize - 1, Len(enhInput)), EnhanceOutcomes)
        IN p >= lo /\ p - lo + 1 \in DOMAIN order /\ order[p - lo + 1] = i}

Occurrences(seq, x) == Cardinality({p \in DOMAIN seq : seq[p] = x})

\* C13: enhance_items returns exactly one output record per input item,
\* whatever the outcome of each item's fetch.
OneRecordPerItem ==
    enhPc = "done" =>
        /\ Len(enhOut) = Len(enhInput)
        /\ \A g \in Guids :
              Occurrences([p \in DOMAIN enhOut |-> enhOut[p].guid], g) = Occurrences(enhInput, g)

\* a call over two batches has returned; its items include one without a
\* link, one whose fetch raised and one whose fetch came back empty
MixedOutcomesWitness ==
    /\ enhPc = "done" /\ Len(enhInput) > BatchSize
    /\ \E i \in DOMAIN enhFetch : enhFetch[i].outcome = "no_link"
    /\ \E i \in DOMAIN enhFetch : enhFetch[i].outcome = "exception"
    /\ \E i \in DOMAIN enhFetch : enhFetch[i].outcome = "empty"
    /\ \E i \in DOMAIN enhFetch : enhFetch[i].outcome = "error"

\* the outcomes of a fetch that failed or raised
FailedOutcomes == {"error", "error_1015", "exception"}

\* the output of the call had the fetch of item i succeeded
OutputHadItemSucceeded(i) ==
    EnhanceItems(enhInput, [EnhanceOutcomes EXCEPT ![i] = "ok"])

SiblingsUntouched(i) ==
    /\ Len(enhOut) = Len(enhInput)
    /\ \A p \in DOMAIN enhOut \ OutPositions(i) :
          enhOut[p] = OutputHadItemSucceeded(i)[p]

\* C14 as stated: when the fetch of one item fails or raises, the call still
\* completes, that item's content is the 'cannot fetch, see the original
\* link' note and the records of the other items are what they would be had
\* that fetch succeeded.
FailedFetchGetsNote ==
    enhPc = "done" =>
        \A i \in DOMAIN enhFetch : enhFetch[i].outcome \in FailedOutcomes =>
            /\ SiblingsUntouched(i)
            /\ \A p \in OutPositions(i) : enhOut[p].full_content = "unavailable_note"

\* C14 amended: when the fetch of one item fails or raises, the call still
\* completes, that item's content is the 'cannot fetch' note or an error
\* sentinel, and the records of the other items are what they would be had
\* that fetch succeeded.
FailedFetchGetsNoteOrSentinel ==
    enhPc = "done" =>
        \A i \in DOMAIN enhFetch : enhFetch[i].outcome \in FailedOutcomes =>
            /\ SiblingsUntouched(i)
            /\ Cardinality(OutPositions(i)) = 1
            /\ \A p \in OutPositions(i) :
                  /\ enhOut[p].guid = enhInput[i]
                  /\ enhOut[p].full_content \in
                        {"unavailable_note", "error_sentinel", "# Error 1015"}

\* a call has returned in which one fetch raised, one ended in an error and
\* a third item of the same batch was fetched
FailedSiblingWitness ==
    /\ enhPc = "done"
    /\ \E i \in DOMAIN enhFetch : \E j \in DOMAIN enhFetch : \E k \in DOMAIN enhFetch :
          /\ enhFetch[i].outcome = "exception"
          /\ enhFetch[j].outcome = "error"
          /\ enhFetch[k].outcome = "ok"
          /\ {i, j, k} \subseteq 1..BatchSize

\* C15: an item whose every fetch attempt was rate limited is part of the
\* output with full_content starting '# Error 1015' and a content_fetched_at
\* that is not null.
RateLimitedGetsSentinel ==
    enhPc = "done" =>
        \A i \in DOMAIN enhFetch :
            (enhFetch[i].all1015 /\ enhFetch[i].outcome # "none") =>
                \E p \in OutPositions(i) :
                    /\ p \in DOMAIN enhOut
                    /\ enhOut[p].guid = enhInput[i]
                    /\ enhOut[p].full_content = "# Error 1015"
                    /\ enhOut[p].content_fetched_at # NULL

\* a call has returned with an item that was rate limited on every attempt
\* next to an item that was fetched
RateLimitedWitness ==
    /\ enhPc = "done"
    /\ \E i \in DOMAIN enhFetch : \E j \in DOMAIN enhFetch :
          /\ enhFetch[i].all1015 /\ enhFetch[i].outcome = "error_1015"
          /\ enhFetch[j].outcome = "ok"

\* the feed processed last failed in some way
FeedFailed ==
    \/ lastFeed.fetchFailed
    \/ lastFeed.wellFormed = "broken"
    \/ lastFeed.raised
    \/ lastFeed.storageError

\* C12: every item the orchestrator passes to deduplication has a non-empty
\* guid (the feed's guid, else the link, else a synthetic value).
DedupedItemsHaveGuid ==
    \A k \in DOMAIN lastFeed.deduped : lastFeed.deduped[k] # EmptyGuid

\* C16: a failure while processing a feed is recorded in the summary's
\* errors, every configured feed is still gone through, and the run returns
\* its summary.
FeedFailureRecorded ==
    /\ (lastFeed.idx > 0 /\ FeedFailed) => lastFeed.idx \in results.errors
    /\ results.feeds_processed + Cardinality(results.errors) = feedIdx - 1
    /\ runPc = "done" => feedIdx = NumFeeds + 1

\* C17: when the fetch of a feed fails and the mirror retry fails too (or no
\* mirror applies), what the fetcher returns differs from what it returns for
\* a fetched feed with zero items.
FetchFailureDistinguishable ==
    lastFeed.fetchFailed =>
        lastFeed.returned # ItemGuids(ParseWithRequests(
            [mirror |-> FALSE, first |-> "ok", backup |-> "ok"], EmptyDocument))

\* C18: when a feed's document cannot be parsed even after the repair retry,
\* the summary has an error for that feed, success is false at the end of the
\* run, and no item of that feed is stored.
UnparseableFeedRecorded ==
    (lastFeed.idx > 0 /\ lastFeed.wellFormed = "broken") =>
        /\ lastFeed.idx \in results.errors
        /\ ~lastFeed.tableChanged
        /\ runPc = "done" => ~results.success

\* C19: when the batched upsert of a feed's items fails with a storage error,
\* the summary has an error for that feed and success is false at the end of
\* the run.
StorageErrorRecorded ==
    (lastFeed.idx > 0 /\ lastFeed.storageError) =>
        /\ lastFeed.idx \in results.errors
        /\ runPc = "done" => ~results.success

\* C20: when the first parse of a fetched document fails and the one repair
\* retry gives a document that parses, parse returns the entries of the
\* repaired document, a non-empty result when it has well-formed entries.
RepairedParseReturnsEntries ==
    (lastFeed.idx > 0 /\ lastFeed.wellFormed = "repairable") =>
        /\ lastFeed.returned =
              ItemGuids([k \in DOMAIN lastFeed.entries |-> ParseRssItem(lastFeed.entries[k])])
        /\ lastFeed.entries # <<>> => lastFeed.returned # <<>>

\* the positions of a claimant between its two finalize updates
Finalizing == {"finalizing", "finalizing_unsaved"}

\* C27: every row claimed for a table ends in exactly one of success_ids and
\* failed_ids: the success update takes exactly the rows that leave the
\* claimant's hands, and once the failed update has committed no row the
\* claimant was handed is left in processing.
ClaimedRowsAllFinalized ==
    [][\A c \in Claimants :
          /\ (cpc[c] = "processing" /\ cpc'[c] \in Finalizing) =>
                /\ held'[c] \subseteq held[c]
                /\ \A id \in held[c] \cap DOMAIN table' :
                      (id \notin held'[c]) <=> (table'[id].processing_status = "success")
          /\ (cpc[c] \in Finalizing /\ cpc'[c] = "idle") =>
                /\ held'[c] = {}
                /\ \A id \in held[c] \cap DOMAIN table' :
                      table'[id].processing_status = "failed"
                /\ \A x \in handedTo :
                      (x[3] = c /\ x[2] \in DOMAIN table') =>
                          table'[x[2]].processing_status \in {"success", "failed"}]_vars

\* a run finalized one of its claimed rows to success and another to failed
SplitRunWitness ==
    \E c \in Claimants : \E x \in handedTo : \E y \in handedTo :
        /\ cpc[c] = "idle" /\ x[3] = c /\ y[3] = c
        /\ x[2] \in DOMAIN table /\ table[x[2]].processing_status = "success"
        /\ y[2] \in DOMAIN table /\ table[y[2]].processing_status = "failed"

\* C28: a row is set to success only if the product information extracted
\* from it was saved to discovered_products: a run whose save failed marks
\* no row success.
SuccessOnlyIfSaved ==
    [][\A c \in Claimants :
          (cpc[c] = "processing" /\ cpc'[c] = "finalizing_unsaved") =>
              \A id \in DOMAIN table \cap DOMAIN table' :
                  table'[id].processing_status = "success" =>
                      table[id].processing_status = "success"]_vars

\* C30: the cleanup task never deletes a row whose processing_status is
\* processing, so the ids a claimant holds name existing rows when it
\* finalizes them.
CleanupSparesProcessing ==
    [][/\ \A id \in DOMAIN table \ DOMAIN table' :
             table[id].processing_status # "processing"
       /\ \A c \in Claimants :
             cpc'[c] \in {"processing"} \cup Finalizing => held'[c] \subseteq DOMAIN table']_vars

\* C29: the ingestion upsert never changes the processing_status of a row
\* that already exists: every row of the table is still there after the
\* upsert, with the processing_status it had.
UpsertKeepsStatus ==
    [][\A r \in Runs :
          (rpc[r] = "fetched" /\ rpc'[r] = "idle") =>
              \A id \in DOMAIN table :
                  /\ id \in DOMAIN table'
                  /\ table'[id].processing_status = table[id].processing_status]_vars

\* the last upsert updated (rowcount 2) the only row of the table, which a
\* claimant holds in processing
ReingestProcessingWitness ==
    /\ rpc[1] = "idle" /\ inserted = 2
    /\ \E id \in DOMAIN table :
          /\ DOMAIN table = {id}
          /\ table[id].processing_status = "processing"
          /\ cpc[1] = "processing" /\ id \in held[1]

\* C22: the items a run enriches and upserts are exactly the parsed items
\* whose guid is absent from the guid snapshot read before enrichment: the
\* filter keeps every occurrence of an unknown guid and none of a known one,
\* and the upsert stores each kept item and touches no row of another guid.
OnlyNewItemsEnriched ==
    [][/\ (rpc[1] = "idle" /\ rpc'[1] = "fetched") =>
             /\ \A g \in Guids :
                   Occurrences(newItems'[1], g) =
                       IF g \in ExistingGuids(table) THEN 0 ELSE Occurrences(feed, g)
             /\ table' = table
       /\ (rpc[1] = "fetched" /\ rpc'[1] = "idle") =>
             /\ DOMAIN table \subseteq DOMAIN table'
             /\ \A g \in Range(newItems[1]) : tb(g) \in ExistingGuids(table')
             /\ \A id \in DOMAIN table' :
                   (id \notin DOMAIN table \/ table'[id] # table[id]) =>
                       \E g \in Range(newItems[1]) : table'[id].guid = tb(g)]_vars

\* the second run of a two-item feed: the snapshot filter dropped the item
\* whose guid is stored and kept the other one
PartialFilterWitness ==
    /\ runsDone = 1 /\ rpc[1] = "fetched"
    /\ Len(feed) = 2 /\ Len(newItems[1]) = 1
    /\ \E p \in DOMAIN feed : feed[p] \in ExistingGuids(table)

\* C23: one call of fetch_full_content makes at most max_retries + 1
\* attempts and has returned after the last one; it makes no attempt once it
\* has returned, in particular after an attempt brought non-empty content;
\* every attempt after the first sleeps its backoff delay first, the first
\* does not.
BoundedRetriesWithBackoff ==
    [][enhPc = "running" =>
          \A i \in DOMAIN enhFetch :
              enhFetch'[i] # enhFetch[i] =>
                  /\ enhFetch[i].outcome = "none"
                  /\ enhFetch[i].attempt + 1 <= MaxRetries + 1
                  /\ enhFetch[i].attempt = MaxRetries => enhFetch'[i].outcome # "none"
                  /\ enhFetch'[i].outcome = "none" =>
                        enhFetch'[i].attempt = enhFetch[i].attempt + 1
                  /\ enhFetch'[i].slept <=> (enhFetch[i].attempt > 0)]_vars

\* one fetch returned markdown at its first attempt, without a delay, and
\* another returned an error after a retried attempt
RetriedAndFirstTryWitness ==
    \E i \in DOMAIN enhFetch : \E j \in DOMAIN enhFetch :
        /\ enhFetch[i].outcome = "ok" /\ ~enhFetch[i].slept
        /\ enhFetch[j].outcome = "error" /\ enhFetch[j].slept

\* the fetches that have made an attempt and not returned yet
InFlight == {i \in DOMAIN enhFetch : enhFetch[i].outcome = "none" /\ enhFetch[i].attempt > 0}

\* the index of the first item of the batch that holds item i
BatchStart(i) == ((i - 1) \div BatchSize) * BatchSize + 1

\* C24: at most batch_size fetches are in flight at any time; a fetch makes
\* an attempt only when every fetch of the earlier batches has returned and
\* the loop is not in its inter-batch delay; the loop moves to the next
\* batch only out of that delay, which starts when every fetch of the batch
\* has returned; no delay follows the last batch.
BatchesInTurn ==
    [][/\ Cardinality(InFlight') <= BatchSize
       /\ \A i \in DOMAIN enhFetch :
             (enhPc # "idle" /\ enhFetch'[i] # enhFetch[i]) =>
                 /\ enhPc = "running"
                 /\ BatchStart(i) = enhBatch
                 /\ \A j \in 1..(BatchStart(i) - 1) : enhFetch[j].outcome # "none"
       /\ (enhPc # "idle" /\ enhBatch' # enhBatch /\ enhPc' = "running") =>
             enhPc = "sleeping"
       /\ (enhPc # "sleeping" /\ enhPc' = "sleeping") =>
             /\ \A j \in 1..Min(enhBatch + BatchSize - 1, Len(enhInput)) :
                   enhFetch[j].outcome # "none"
             /\ enhBatch + BatchSize <= Len(enhInput)
       /\ (enhPc # "done" /\ enhPc' = "done") => enhPc # "sleeping"]_vars

\* the call sleeps between its two batches: the first batch of batch_size
\* fetches has returned after retries, the second has not started
BetweenBatchesWitness ==
    /\ enhPc = "sleeping" /\ Len(enhInput) > BatchSize
    /\ \A i \in 1..BatchSize : enhFetch[i].outcome # "none" /\ enhFetch[i].slept
    /\ \A i \in (BatchSize + 1)..Len(enhInput) : enhFetch[i] = FreshFetch

\* the requests of the call that went to the alternate mirror
AlternateRequests == {p \in DOMAIN fetchLog : fetchLog[p].host = "alternate"}

\* C25: a request to the alternate mirror is issued only after a request to
\* the configured URL failed and only when the URL starts with the primary
\* mirror prefix; the alternate mirror is tried once, and no request follows
\* a failed request to it.
AlternateOnlyOnceAfterFailure ==
    /\ \A p \in AlternateRequests :
          /\ fetchCfg.url = "prefixed"
          /\ \E q \in 1..(p - 1) :
                /\ fetchLog[q].host = "primary"
                /\ fetchLog[q].outcome \in {"raise", "fail"}
    /\ Cardinality(AlternateRequests) <= 1
    /\ \A p \in AlternateRequests :
          fetchLog[p].outcome \in {"raise", "fail"} => p = Len(fetchLog)

\* C26: when the primary mirror answers with a 2xx response whose body is
\* empty or parses into no entry, and the URL matches the mirror prefix, the
\* fetcher tries the alternate mirror once.
EmptyAnswerTriesAlternate ==
    (/\ fetchPc = "done"
     /\ HasMirrorPrefix(fetchCfg.url)
     /\ fetchLog[Len(fetchLog)].host = "primary"
     /\ fetchLog[Len(fetchLog)].outcome \in {"ok", "rss"}
     /\ fetchReturned = <<>>) => Cardinality(AlternateRequests) = 1

\* C21: ingesting the same digest entry again leaves rss_decohack_products
\* with the rows the first ingestion gave it, for every product of the
\* digest, those without a parsed publish date included.
DigestIngestIdempotent ==
    decoIngests >= 1 => decoTable = BatchInsertDecohackProducts(<<>>, decoDigest)

====
